---- MODULE Spec2Model ----
(***************************************************************************)
(* Model of src/routes/index.js: the Express router that keeps the         *)
(* uploaded SQLite files (the uploads directory), the process-wide active   *)
(* database handle global.dbPath, the /projects browse resolution and the  *)
(* /details dispatch.                                                       *)
(*                                                                          *)
(* A file name is a pair <<stem, ext>> (ext is what path.extname returns),  *)
(* a path is a sequence of such segments, and a request parameter that is   *)
(* absent or the empty string is the empty sequence.                        *)
(***************************************************************************)
EXTENDS Integers, Sequences, FiniteSets, TLC

VARIABLES files, dbPath, now, uploads, res, db, browse, calls, detail

\* the state of the /projects and /details requests
browseVars == <<db, browse, calls, detail>>
vars == <<files, dbPath, now, uploads, res, db, browse, calls, detail>>

(***************************************************************************)
(* Bounds of the model.                                                     *)
(***************************************************************************)
NUploads == 2
MaxClock == 1

(***************************************************************************)
(* Names and paths.                                                         *)
(***************************************************************************)
Seg(stem, ext) == <<stem, ext>>
Dot == Seg(".", "")
DotDot == Seg("..", "")

ExtName(seg) == seg[2]

ToLowerCase(ext) ==
  CASE ext = ".DB" -> ".db"
    [] ext = ".SQLITE" -> ".sqlite"
    [] ext = ".TXT" -> ".txt"
    [] OTHER -> ext

\* the regular expression /\.(sqlite|sqlite3|db)$/ applied to an extension
filetypes(ext) == ext \in {".sqlite", ".sqlite3", ".db"}

\* path.normalize on a relative or absolute sequence of segments
RECURSIVE Normalize(_, _)
Normalize(done, rest) ==
  IF rest = <<>> THEN done
  ELSE LET s == Head(rest) IN
       IF s = Dot THEN Normalize(done, Tail(rest))
       ELSE IF s = DotDot /\ done # <<>> /\ done[Len(done)] # DotDot
            THEN Normalize(SubSeq(done, 1, Len(done) - 1), Tail(rest))
            ELSE Normalize(Append(done, s), Tail(rest))

\* path.join(a, b)
Join(a, b) == Normalize(<<>>, a \o b)

dirname == <<Seg("app", ""), Seg("routes", "")>>
uploadsDir == Join(dirname, <<DotDot, Seg("uploads", "")>>)

Undefined == <<>>

A == Seg("a", ".db")
B == Seg("b", ".sqlite")

fieldname == "databaseFile"

\* storage.filename: fieldname + '-' + Date.now() + extname(originalname)
filename(t, originalname) ==
  Seg(fieldname \o "-" \o ToString(t), ExtName(originalname))

StoredNames == {filename(t, Seg("x", ".db")) : t \in 0..MaxClock}

\* names a client sends in a request body; <<>> is a missing or empty field
ClientNames ==
  {<<>>, <<A>>, <<Dot, A>>, <<B>>} \cup {<<n>> : n \in StoredNames}

\* the new names a client sends in a rename request
NewNames == {<<>>, <<A>>, <<B>>}

\* a new name whose extension the listing does not recognise
Notes == Seg("notes", ".txt")
RenameTargets == NewNames \cup {<<Notes>>}

(***************************************************************************)
(* Uploaded files.                                                          *)
(***************************************************************************)
\* limits.fileSize
fileSize == 1000000000

\* the multipart field of an upload request: the original name, whether the
\* bytes are a database sqlite3 can open, and the size in bytes; none is a
\* request without the field
NoFile == [originalname |-> Seg("", ""), sqlite |-> FALSE, size |-> 0, none |-> TRUE]
UploadFile(n, v, sz) == [originalname |-> n, sqlite |-> v, size |-> sz, none |-> FALSE]

UploadInputs ==
  { NoFile,
    UploadFile(Seg("dump", ".db"), TRUE, 1),
    UploadFile(Seg("junk", ".db"), FALSE, 1),
    UploadFile(Seg("report", ".txt"), TRUE, 1),
    UploadFile(Seg("huge", ".db"), TRUE, fileSize + 1) }

\* upload's fileFilter
fileFilter(file) ==
  \/ filetypes(ToLowerCase(ExtName(file.originalname)))
  \/ ExtName(file.originalname) = ""

\* what a stored file holds: whether sqlite3 can open it as a database
Content(v) == [sqlite |-> v]

Exists(p) == p \in DOMAIN files
Put(fs, p, c) == [q \in DOMAIN fs \cup {p} |-> IF q = p THEN c ELSE fs[q]]
Remove(fs, p) == [q \in DOMAIN fs \ {p} |-> fs[q]]

\* an upload request in flight: where it stands, the stored path (req.file)
\* and the probe's Database object db.
\* "probing": stored, the open probe is running, nothing sent yet;
\* "unlinking": the probe failed, the 400 is sent, fs.unlink is running.
\* db is "none" before new sqlite3.Database, "open" from then until
\* db.close() is called on it, "closed" after.
NoUpload == [pc |-> "free", path |-> Undefined, db |-> "none"]

\* the last response sent: route, HTTP status, and what is sent (the message,
\* the redirect target or the rendered view)
Response(route, status, body) == [route |-> route, status |-> status, body |-> body]

DeletionNotAllowed == "Deletion of the currently loaded database is not allowed."
NotValidSqlite == "Error: Uploaded file is not a valid SQLite database"

\* the databases the root route renders: readdir(uploadsDir), filtered
databases(fs) ==
  { p[Len(p)] : p \in { q \in DOMAIN fs :
        /\ Len(q) = Len(uploadsDir) + 1
        /\ SubSeq(q, 1, Len(uploadsDir)) = uploadsDir
        /\ \/ filetypes(ToLowerCase(ExtName(q[Len(q)])))
           \/ ExtName(q[Len(q)]) = "" } }

(***************************************************************************)
(* Initial state: the uploads directory exists and holds one database left *)
(* by an earlier run; no database is active; the provider data is empty.    *)
(***************************************************************************)
\* the provider has answered nothing yet
NoData == [projects |-> <<>>, branches |-> <<>>]

InitFiles ==
  /\ files = (Join(uploadsDir, <<A>>) :> Content(TRUE))
  /\ dbPath = Undefined
  /\ now = 0
  /\ uploads = [k \in 1..NUploads |-> NoUpload]
  /\ res = Response("none", 0, "")

(***************************************************************************)
(* GET /                                                                    *)
(***************************************************************************)
Root ==
  /\ res' = Response("/", 200, "index")
  /\ UNCHANGED <<files, dbPath, now, uploads>>
  /\ UNCHANGED browseVars

(***************************************************************************)
(* POST /select-database                                                    *)
(***************************************************************************)
SelectDatabase(selectedDatabase) ==
  /\ IF selectedDatabase = <<>>
     THEN /\ res' = Response("/select-database", 400, "No database selected")
          /\ UNCHANGED dbPath
     ELSE /\ dbPath' = Join(uploadsDir, selectedDatabase)
          /\ res' = Response("/select-database", 302, "/projects")
  /\ UNCHANGED <<files, now, uploads>>
  /\ UNCHANGED browseVars

(***************************************************************************)
(* POST /rename-database.  fs.rename and its callback are one step, taken   *)
(* at the instant the file system carries the rename out.                   *)
(***************************************************************************)
\* a rename that makes the handle follow the active file to its new name
RenameDatabase_followActive(oldName, newName) ==
  /\ IF oldName = <<>> \/ newName = <<>>
     THEN /\ res' = Response("/rename-database", 400, "Old name and new name must be provided")
          /\ UNCHANGED <<files, dbPath>>
     ELSE LET oldPath == Join(uploadsDir, oldName)
              newPath == Join(uploadsDir, newName)
          IN IF Exists(oldPath)
             THEN /\ files' = Put(Remove(files, oldPath), newPath, files[oldPath])
                  /\ dbPath' = IF dbPath = oldPath THEN newPath ELSE dbPath
                  /\ res' = Response("/rename-database", 302, "/")
             ELSE /\ res' = Response("/rename-database", 500, "Error renaming database")
                  /\ UNCHANGED <<files, dbPath>>
  /\ UNCHANGED <<now, uploads>>
  /\ UNCHANGED browseVars

RenameDatabase(oldName, newName) ==
  /\ IF oldName = <<>> \/ newName = <<>>
     THEN /\ res' = Response("/rename-database", 400, "Old name and new name must be provided")
          /\ UNCHANGED files
     ELSE LET oldPath == Join(uploadsDir, oldName)
              newPath == Join(uploadsDir, newName)
          IN IF Exists(oldPath)
             THEN /\ files' = Put(Remove(files, oldPath), newPath, files[oldPath])
                  /\ res' = Response("/rename-database", 302, "/")
             ELSE /\ res' = Response("/rename-database", 500, "Error renaming database")
                  /\ UNCHANGED files
  /\ UNCHANGED <<dbPath, now, uploads>>
  /\ UNCHANGED browseVars

(***************************************************************************)
(* POST /delete-database.  fs.unlink and its callback are one step, taken   *)
(* at the instant the file system carries the unlink out.                   *)
(***************************************************************************)
\* the deletion guard comparing the handle with the name as sent, not with
\* the joined and normalised path
DeleteDatabase_rawCompare(databaseName) ==
  /\ IF databaseName = <<>>
     THEN /\ res' = Response("/delete-database", 400, "Database name is required for deletion.")
          /\ UNCHANGED files
     ELSE LET path == Join(uploadsDir, databaseName) IN
          IF dbPath = uploadsDir \o databaseName
          THEN /\ res' = Response("/delete-database", 400, DeletionNotAllowed)
               /\ UNCHANGED files
          ELSE IF Exists(path)
          THEN /\ files' = Remove(files, path)
               /\ res' = Response("/delete-database", 302, "/")
          ELSE /\ res' = Response("/delete-database", 500, "Error deleting database file.")
               /\ UNCHANGED files
  /\ UNCHANGED <<dbPath, now, uploads>>
  /\ UNCHANGED browseVars

DeleteDatabase(databaseName) ==
  /\ IF databaseName = <<>>
     THEN /\ res' = Response("/delete-database", 400, "Database name is required for deletion.")
          /\ UNCHANGED files
     ELSE LET path == Join(uploadsDir, databaseName) IN
          IF dbPath = path
          THEN /\ res' = Response("/delete-database", 400, DeletionNotAllowed)
               /\ UNCHANGED files
          ELSE IF Exists(path)
          THEN /\ files' = Remove(files, path)
               /\ res' = Response("/delete-database", 302, "/")
          ELSE /\ res' = Response("/delete-database", 500, "Error deleting database file.")
               /\ UNCHANGED files
  /\ UNCHANGED <<dbPath, now, uploads>>
  /\ UNCHANGED browseVars

(***************************************************************************)
(* POST /upload                                                             *)
(***************************************************************************)
\* Date.now() advances
Tick ==
  /\ now < MaxClock
  /\ now' = now + 1
  /\ UNCHANGED <<files, dbPath, uploads, res>>
  /\ UNCHANGED browseVars

\* multer runs (fileFilter, storage.filename, the write to disk, the size
\* limit: a file over the limit is removed again), then the handler's
\* callback either answers or opens the stored file read-only.  A request
\* takes the lowest free slot.
Upload(k, file) ==
  /\ uploads[k].pc = "free"
  /\ \A j \in 1..(k - 1) : uploads[j].pc # "free"
  /\ LET path == Join(uploadsDir, <<filename(now, file.originalname)>>) IN
     IF file.none
     THEN /\ res' = Response("/upload", 400, "Error: No file selected")
          /\ UNCHANGED <<files, uploads>>
     ELSE IF ~fileFilter(file)
     THEN /\ res' = Response("/upload", 500, "Error: File upload only supports the following filetypes")
          /\ UNCHANGED <<files, uploads>>
     ELSE IF file.size > fileSize
     THEN /\ files' = Remove(files, path)
          /\ res' = Response("/upload", 500, "File too large")
          /\ UNCHANGED uploads
     ELSE /\ files' = Put(files, path, Content(file.sqlite))
          /\ uploads' = [uploads EXCEPT ![k] = [pc |-> "probing", path |-> path, db |-> "open"]]
          /\ UNCHANGED res
  /\ UNCHANGED <<dbPath, now>>
  /\ UNCHANGED browseVars

\* the callback storing the path in the handle before it looks at dbErr
UploadProbe_activateFirst(k) ==
  /\ uploads[k].pc = "probing"
  /\ LET path == uploads[k].path
         dbErr == ~Exists(path) \/ ~files[path].sqlite
     IN /\ dbPath' = path
        /\ IF dbErr
           THEN /\ uploads' = [uploads EXCEPT ![k].pc = "unlinking"]
                /\ res' = Response("/upload", 400, NotValidSqlite)
           ELSE /\ uploads' = [uploads EXCEPT ![k] = NoUpload]
                /\ res' = Response("/upload", 302, "/projects")
  /\ UNCHANGED <<files, now>>
  /\ UNCHANGED browseVars

\* the callback of new sqlite3.Database(dbPath, OPEN_READONLY, ...).  With
\* dbErr it issues fs.unlink and answers, and calls nothing on db; without,
\* it calls db.close(), stores the path in the handle and redirects, and the
\* request is over.
UploadProbe(k) ==
  /\ uploads[k].pc = "probing"
  /\ LET path == uploads[k].path
         dbErr == ~Exists(path) \/ ~files[path].sqlite
     IN IF dbErr
        THEN /\ uploads' = [uploads EXCEPT ![k].pc = "unlinking"]
             /\ res' = Response("/upload", 400, NotValidSqlite)
             /\ UNCHANGED dbPath
        ELSE /\ dbPath' = path
             /\ uploads' = [uploads EXCEPT ![k] = NoUpload]
             /\ res' = Response("/upload", 302, "/projects")
  /\ UNCHANGED <<files, now>>
  /\ UNCHANGED browseVars

\* the fs.unlink issued on the invalid path is carried out; its callback
\* only logs
UploadUnlink(k) ==
  /\ uploads[k].pc = "unlinking"
  /\ files' = IF Exists(uploads[k].path) THEN Remove(files, uploads[k].path) ELSE files
  /\ uploads' = [uploads EXCEPT ![k] = NoUpload]
  /\ UNCHANGED <<dbPath, now, res>>
  /\ UNCHANGED browseVars


(***************************************************************************)
(* GET /projects: the browse resolution.                                    *)
(*                                                                          *)
(* The Data Query Provider (utils/projectQueries) answers from the tables   *)
(* of the active database.  db holds the rows it has answered with so far:  *)
(* db.projects, and db.branches for the selected project, in the order the  *)
(* provider returned them; any list of the bounded sets may be the answer.  *)
(* Every branch has two states.  created_at is a timestamp in seconds; new  *)
(* Date(created_at) is its value in milliseconds.  An absent query          *)
(* parameter is Absent; "" is an empty one; both are falsy.                 *)
(***************************************************************************)
MaxProjects == 2
MaxBranches == 2
MaxTime == 2

Absent == "undefined"
NoId == 0
\* JavaScript truthiness of a string parameter and of an id
Truthy(v) == v \notin {Absent, ""}
TruthyId(v) == v # NoId

Date(created_at) == created_at * 1000

\* the comparator with its operands swapped: an ascending sort
compare_ascending(a, b) == Date(a.created_at) - Date(b.created_at)

\* the comparator (a, b) => new Date(b.created_at) - new Date(a.created_at)
compare(a, b) == Date(b.created_at) - Date(a.created_at)

\* Array.prototype.sort with that comparator: a stable sort, so x is placed
\* after every element it does not strictly precede
RECURSIVE Insert(_, _)
Insert(sorted, x) ==
  IF sorted = <<>> THEN <<x>>
  ELSE IF compare(Head(sorted), x) > 0
       THEN <<x>> \o sorted
       ELSE <<Head(sorted)>> \o Insert(Tail(sorted), x)

RECURSIVE sort(_)
sort(seq) ==
  IF seq = <<>> THEN <<>>
  ELSE Insert(sort(SubSeq(seq, 1, Len(seq) - 1)), seq[Len(seq)])

\* the project_states rows of branch b
StatesTable(b) ==
  << [id |-> 2 * b - 1, branch_id |-> b, task |-> "build", epic |-> "e",
      iteration |-> "i", agent |-> "dev", llm_request |-> "r"],
     [id |-> 2 * b, branch_id |-> b, task |-> "test", epic |-> "e",
      iteration |-> "i", agent |-> "dev", llm_request |-> "r"] >>

\* the lists getProjects may answer with: ids are 1, 2, ... in returned order
getProjects ==
  UNION { { [i \in 1..n |-> [id |-> i, created_at |-> c[i]]] : c \in [1..n -> 1..MaxTime] }
          : n \in 0..MaxProjects }

\* the lists getBranchesByProjectId may answer with: the rows of that project
getBranchesByProjectId(projectId) ==
  UNION { { [i \in 1..n |-> [id |-> i, project_id |-> projectId, created_at |-> c[i]]]
            : c \in [1..n -> 1..MaxTime] }
          : n \in 0..MaxBranches }

getProjectStatesByBranchId(branchId) ==
  IF branchId \in 1..MaxBranches THEN StatesTable(branchId) ELSE <<>>

FilterFields == {"task", "epic", "iteration", "llm_request", "agent"}
Matches(row, criteria) ==
  \A f \in FilterFields : Truthy(criteria[f]) => row[f] = criteria[f]

RECURSIVE SelectMatching(_, _)
SelectMatching(seq, criteria) ==
  IF seq = <<>> THEN <<>>
  ELSE IF Matches(Head(seq), criteria)
       THEN <<Head(seq)>> \o SelectMatching(Tail(seq), criteria)
       ELSE SelectMatching(Tail(seq), criteria)

searchProjectStates(criteria) ==
  SelectMatching(getProjectStatesByBranchId(criteria.branchId), criteria)

\* the filter fields of a request: none, each one alone, an empty task, and
\* combinations that some state, or no state, of a branch matches
Filter(task, epic, iteration, llm_request, agent) ==
  [task |-> task, epic |-> epic, iteration |-> iteration,
   llm_request |-> llm_request, agent |-> agent]

Filters ==
  { Filter(Absent, Absent, Absent, Absent, Absent),
    Filter("", Absent, Absent, Absent, Absent),
    Filter("build", Absent, Absent, Absent, Absent),
    Filter(Absent, "e", Absent, Absent, Absent),
    Filter(Absent, Absent, "j", Absent, Absent),
    Filter(Absent, Absent, Absent, "r", Absent),
    Filter(Absent, Absent, Absent, Absent, "dev"),
    Filter("build", "e", Absent, Absent, Absent),
    Filter("build", Absent, "j", Absent, Absent),
    Filter("test", "e", "i", "r", "dev") }

Query(projectId, branchId, f) ==
  [projectId |-> projectId, branchId |-> branchId, task |-> f.task, epic |-> f.epic,
   iteration |-> f.iteration, llm_request |-> f.llm_request, agent |-> f.agent]

Queries ==
  { Query(p, b, f) : p \in {NoId} \cup 1..MaxProjects,
                     b \in {NoId} \cup 1..MaxBranches,
                     f \in Filters }

NoQuery == Query(NoId, NoId, Filter(Absent, Absent, Absent, Absent, Absent))

\* a browse request: its position, the handle it read, its query, and the
\* locals of the handler; status is the response's once it is sent
Browse(pc, path, q) ==
  [pc |-> pc, dbPath |-> path, query |-> q, projects |-> <<>>, branches |-> <<>>,
   projectStates |-> <<>>, selectedProjectId |-> q.projectId,
   selectedBranchId |-> q.branchId, status |-> 0]

NoBrowse == Browse("idle", Undefined, NoQuery)

Call(fn, path, arg) == [fn |-> fn, dbPath |-> path, arg |-> arg]

\* res.render('projects', ...)
Render(b) == [b EXCEPT !.pc = "done", !.status = 200]
\* a catch block that logs the error and renders what was resolved so far
Fail_renderPartial(b) == Render(b)

\* the catch block
Fail(b) == [b EXCEPT !.pc = "done", !.status = 500]

BrowseStart(q) ==
  /\ browse.pc = "idle"
  /\ IF dbPath = Undefined
     THEN /\ browse' = [Browse("done", dbPath, q) EXCEPT !.status = 400]
          /\ calls' = <<>>
          /\ res' = Response("/projects", 400, "No database file specified.")
     ELSE /\ browse' = Browse("getProjects", dbPath, q)
          /\ calls' = <<Call("getProjects", dbPath, NoId)>>
          /\ UNCHANGED res
  /\ UNCHANGED <<files, dbPath, now, uploads, detail, db>>

\* the handler passing global.dbPath, read again, to getBranchesByProjectId
BrowseProjects_rereadHandle(ok) ==
  /\ browse.pc = "getProjects"
  /\ IF ~ok
     THEN /\ browse' = Fail(browse)
          /\ res' = Response("/projects", 500, "Error fetching data")
          /\ UNCHANGED <<calls, db>>
     ELSE \E answer \in getProjects :
          LET projects == sort(answer)
              b1 == [browse EXCEPT !.projects = projects] IN
          /\ db' = [db EXCEPT !.projects = answer]
          /\ IF ~TruthyId(b1.selectedProjectId) /\ Len(projects) > 0
             THEN /\ browse' = [b1 EXCEPT !.selectedProjectId = projects[1].id,
                                            !.pc = "getBranchesLatest"]
                  /\ calls' = Append(calls, Call("getBranchesByProjectId", dbPath, projects[1].id))
                  /\ UNCHANGED res
             ELSE IF TruthyId(b1.selectedProjectId)
             THEN /\ browse' = [b1 EXCEPT !.pc = "getBranches"]
                  /\ calls' = Append(calls, Call("getBranchesByProjectId", dbPath, b1.selectedProjectId))
                  /\ UNCHANGED res
             ELSE /\ browse' = Render(b1)
                  /\ res' = Response("/projects", 200, "projects")
                  /\ UNCHANGED calls
  /\ UNCHANGED <<files, dbPath, now, uploads, detail>>

\* await getProjects(dbPath) settles: it throws, or answers
BrowseProjects(ok) ==
  /\ browse.pc = "getProjects"
  /\ IF ~ok
     THEN /\ browse' = Fail(browse)
          /\ res' = Response("/projects", 500, "Error fetching data")
          /\ UNCHANGED <<calls, db>>
     ELSE \E answer \in getProjects :
          LET projects == sort(answer)
              b1 == [browse EXCEPT !.projects = projects] IN
          /\ db' = [db EXCEPT !.projects = answer]
          /\ IF ~TruthyId(b1.selectedProjectId) /\ Len(projects) > 0
             THEN /\ browse' = [b1 EXCEPT !.selectedProjectId = projects[1].id,
                                            !.pc = "getBranchesLatest"]
                  /\ calls' = Append(calls, Call("getBranchesByProjectId", browse.dbPath, projects[1].id))
                  /\ UNCHANGED res
             ELSE IF TruthyId(b1.selectedProjectId)
             THEN /\ browse' = [b1 EXCEPT !.pc = "getBranches"]
                  /\ calls' = Append(calls, Call("getBranchesByProjectId", browse.dbPath, b1.selectedProjectId))
                  /\ UNCHANGED res
             ELSE /\ browse' = Render(b1)
                  /\ res' = Response("/projects", 200, "projects")
                  /\ UNCHANGED calls
  /\ UNCHANGED <<files, dbPath, now, uploads, detail>>

\* await getBranchesByProjectId settles where no project was selected
BrowseBranchesLatest(ok) ==
  /\ browse.pc = "getBranchesLatest"
  /\ IF ~ok
     THEN /\ browse' = Fail(browse)
          /\ res' = Response("/projects", 500, "Error fetching data")
          /\ UNCHANGED db
     ELSE \E answer \in getBranchesByProjectId(browse.selectedProjectId) :
          LET branches == sort(answer)
              b1 == [browse EXCEPT !.branches = branches]
              b2 == IF Len(branches) > 0
                    THEN [b1 EXCEPT !.selectedBranchId = branches[1].id] ELSE b1
          IN /\ db' = [db EXCEPT !.branches = answer]
             /\ browse' = Render(b2)
             /\ res' = Response("/projects", 200, "projects")
  /\ UNCHANGED <<files, dbPath, now, uploads, detail, calls>>

\* await getBranchesByProjectId settles where the request named a project
BrowseBranches(ok) ==
  /\ browse.pc = "getBranches"
  /\ IF ~ok
     THEN /\ browse' = Fail(browse)
          /\ res' = Response("/projects", 500, "Error fetching data")
          /\ UNCHANGED <<calls, db>>
     ELSE \E answer \in getBranchesByProjectId(browse.selectedProjectId) :
          LET branches == sort(answer)
              b1 == [browse EXCEPT !.branches = branches]
              b2 == IF Len(branches) > 0
                    THEN [b1 EXCEPT !.selectedBranchId = branches[1].id] ELSE b1
              q == browse.query
          IN /\ db' = [db EXCEPT !.branches = answer]
             /\ IF TruthyId(b2.selectedBranchId)
                THEN IF Truthy(q.task) \/ Truthy(q.epic) \/ Truthy(q.iteration) \/ Truthy(q.agent)
                     THEN /\ browse' = [b2 EXCEPT !.pc = "searchStates"]
                          /\ calls' = Append(calls, Call("searchProjectStates", browse.dbPath, b2.selectedBranchId))
                          /\ UNCHANGED res
                     ELSE /\ browse' = [b2 EXCEPT !.pc = "getStates"]
                          /\ calls' = Append(calls, Call("getProjectStatesByBranchId", browse.dbPath, b2.selectedBranchId))
                          /\ UNCHANGED res
                ELSE /\ browse' = Render(b2)
                     /\ res' = Response("/projects", 200, "projects")
                     /\ UNCHANGED calls
  /\ UNCHANGED <<files, dbPath, now, uploads, detail>>

\* the criteria object scoped to the branch id of the request's query, not
\* to the branch the handler resolved
Criteria_queryBranch(b) ==
  [task |-> b.query.task, epic |-> b.query.epic, iteration |-> b.query.iteration,
   llm_request |-> b.query.llm_request, agent |-> b.query.agent,
   branchId |-> b.query.branchId]

\* the criteria object passed to searchProjectStates
Criteria(b) ==
  [task |-> b.query.task, epic |-> b.query.epic, iteration |-> b.query.iteration,
   llm_request |-> b.query.llm_request, agent |-> b.query.agent,
   branchId |-> b.selectedBranchId]

\* await searchProjectStates / getProjectStatesByBranchId settles
BrowseStates(ok) ==
  /\ browse.pc \in {"searchStates", "getStates"}
  /\ IF ~ok
     THEN /\ browse' = Fail(browse)
          /\ res' = Response("/projects", 500, "Error fetching data")
     ELSE /\ browse' = Render([browse EXCEPT !.projectStates =
                 IF browse.pc = "searchStates"
                 THEN searchProjectStates(Criteria(browse))
                 ELSE getProjectStatesByBranchId(browse.selectedBranchId)])
          /\ res' = Response("/projects", 200, "projects")
  /\ UNCHANGED <<files, dbPath, now, uploads, detail, db, calls>>

(***************************************************************************)
(***************************************************************************)
(* GET /details/llm-requests/:projectStateId and                            *)
(* GET /details/:column/:projectStateId.  The router tries the routes in    *)
(* the order they are registered, so the token llm-requests never reaches  *)
(* the generic handler.  The Data Query Provider's detail functions         *)
(* (utils/detailQueries) answer or throw; what they answer is handed to    *)
(* the template as it is.                                                   *)
(***************************************************************************)
LlmRequestsRoute == "/details/llm-requests/:projectStateId"
ColumnRoute == "/details/:column/:projectStateId"

\* the column tokens a client sends: the seven of the switch, the name of
\* the llm_request field, and a token in another letter case
Columns ==
  {"epic", "task", "step", "files", "userInputs", "llmRequests", "iteration",
   "llm_request", "Epic"}

ProjectStateIds == {1, 2}

\* the switch with the step case calling the task function
DetailCall_stepAsTask(column) ==
  CASE column = "epic" -> "getEpicDetailsByProjectStateId"
    [] column = "task" -> "getTaskDetailsByProjectStateId"
    [] column = "step" -> "getTaskDetailsByProjectStateId"
    [] column = "files" -> "getFileDetailsByProjectStateId"
    [] column = "userInputs" -> "getUserInputDetailsByProjectStateId"
    [] column = "llmRequests" -> "getLLMRequestDetailsByProjectStateId"
    [] column = "iteration" -> "getIterationDetailsByProjectStateId"
    [] OTHER -> "default"

\* the switch on column: the provider function called
DetailCall(column) ==
  CASE column = "epic" -> "getEpicDetailsByProjectStateId"
    [] column = "task" -> "getTaskDetailsByProjectStateId"
    [] column = "step" -> "getStepDetailsByProjectStateId"
    [] column = "files" -> "getFileDetailsByProjectStateId"
    [] column = "userInputs" -> "getUserInputDetailsByProjectStateId"
    [] column = "llmRequests" -> "getLLMRequestDetailsByProjectStateId"
    [] column = "iteration" -> "getIterationDetailsByProjectStateId"
    [] OTHER -> "default"

\* the switch on column: the template rendered
DetailView(column) ==
  CASE column = "epic" -> "details/epicDetails"
    [] column = "task" -> "details/taskDetails"
    [] column = "step" -> "details/stepDetails"
    [] column = "files" -> "details/fileDetails"
    [] column = "userInputs" -> "details/userInputDetails"
    [] column = "llmRequests" -> "details/llmRequests"
    [] column = "iteration" -> "details/iterationDetails"
    [] OTHER -> "default"

\* a detail request: its route and parameters, its position, the handle it
\* read, the provider calls it issued, and the status and the template of
\* its response once it is sent
Detail(route, column, projectStateId, pc, path, issued, status, view) ==
  [route |-> route, column |-> column, projectStateId |-> projectStateId,
   pc |-> pc, dbPath |-> path, calls |-> issued, status |-> status, view |-> view]

NoDetail == Detail("", "", 0, "idle", Undefined, <<>>, 0, "")

DetailsLlmRequests(projectStateId) ==
  /\ detail.pc = "idle"
  /\ IF dbPath = Undefined
     THEN /\ detail' = Detail(LlmRequestsRoute, "", projectStateId, "done", dbPath, <<>>, 400, "")
          /\ res' = Response(LlmRequestsRoute, 400, "No database file specified.")
     ELSE /\ detail' = Detail(LlmRequestsRoute, "", projectStateId, "await", dbPath,
                              <<Call("getLLMRequestDetailsByProjectStateId", dbPath, projectStateId)>>,
                              0, "")
          /\ UNCHANGED res
  /\ UNCHANGED <<files, dbPath, now, uploads, db, browse, calls>>

\* the generic handler without its check of the handle
Details_unguarded(column, projectStateId) ==
  /\ detail.pc = "idle"
  /\ IF DetailCall(column) = "default"
     THEN /\ detail' = Detail(ColumnRoute, column, projectStateId, "done", dbPath, <<>>, 400, "")
          /\ res' = Response(ColumnRoute, 400, "Invalid detail request")
     ELSE /\ detail' = Detail(ColumnRoute, column, projectStateId, "await", dbPath,
                              <<Call(DetailCall(column), dbPath, projectStateId)>>, 0, "")
          /\ UNCHANGED res
  /\ UNCHANGED <<files, dbPath, now, uploads, db, browse, calls>>

Details(column, projectStateId) ==
  /\ detail.pc = "idle"
  /\ IF dbPath = Undefined
     THEN /\ detail' = Detail(ColumnRoute, column, projectStateId, "done", dbPath, <<>>, 400, "")
          /\ res' = Response(ColumnRoute, 400, "No database file specified.")
     ELSE IF DetailCall(column) = "default"
     THEN /\ detail' = Detail(ColumnRoute, column, projectStateId, "done", dbPath, <<>>, 400, "")
          /\ res' = Response(ColumnRoute, 400, "Invalid detail request")
     ELSE /\ detail' = Detail(ColumnRoute, column, projectStateId, "await", dbPath,
                              <<Call(DetailCall(column), dbPath, projectStateId)>>, 0, "")
          /\ UNCHANGED res
  /\ UNCHANGED <<files, dbPath, now, uploads, db, browse, calls>>

\* the awaited detail function settles: the template is rendered, or the
\* catch block of the route answers
DetailsSettle(ok) ==
  /\ detail.pc = "await"
  /\ LET view == IF detail.route = LlmRequestsRoute
                 THEN "details/llmRequests" ELSE DetailView(detail.column)
         message == IF detail.route = LlmRequestsRoute
                    THEN "Error fetching LLM request details"
                    ELSE "Error fetching column details"
     IN IF ok
        THEN /\ detail' = [detail EXCEPT !.pc = "done", !.status = 200, !.view = view]
             /\ res' = Response(detail.route, 200, view)
        ELSE /\ detail' = [detail EXCEPT !.pc = "done", !.status = 500]
             /\ res' = Response(detail.route, 500, message)
  /\ UNCHANGED <<files, dbPath, now, uploads, db, browse, calls>>

(***************************************************************************)
(* The file and session lifecycle: every route but /projects and /details, *)
(* against an empty provider.                                               *)
(***************************************************************************)
Init ==
  /\ InitFiles
  /\ db = NoData
  /\ browse = NoBrowse
  /\ calls = <<>>
  /\ detail = NoDetail

Next ==
  \/ Root
  \/ \E n \in ClientNames : SelectDatabase(n)
  \/ \E o \in ClientNames, n \in NewNames : RenameDatabase(o, n)
  \/ \E n \in ClientNames : DeleteDatabase(n)
  \/ Tick
  \/ \E k \in 1..NUploads, f \in UploadInputs : Upload(k, f)
  \/ \E k \in 1..NUploads : UploadProbe(k)
  \/ \E k \in 1..NUploads : UploadUnlink(k)

Spec == Init /\ [][Next]_vars

(***************************************************************************)
(* The store and the session without uploads in flight: the uploads        *)
(* directory holds what earlier runs left in it (databases, among them      *)
(* earlier uploads), and clients list, select, rename and delete.           *)
(***************************************************************************)
StartFiles ==
  { [p \in D |-> Content(TRUE)] :
      D \in SUBSET { Join(uploadsDir, <<A>>), Join(uploadsDir, <<filename(0, A)>>) } }

InitStore ==
  /\ files \in StartFiles
  /\ dbPath = Undefined
  /\ now = 0
  /\ uploads = [k \in 1..NUploads |-> NoUpload]
  /\ res = Response("none", 0, "")
  /\ db = NoData
  /\ browse = NoBrowse
  /\ calls = <<>>
  /\ detail = NoDetail

NextStore ==
  \/ Root
  \/ \E n \in ClientNames : SelectDatabase(n)
  \/ \E o \in ClientNames, n \in RenameTargets : RenameDatabase(o, n)
  \/ \E n \in ClientNames : DeleteDatabase(n)

SpecStore == InitStore /\ [][NextStore]_vars

(***************************************************************************)
(* The uploads: upload requests in flight, in the same millisecond or not, *)
(* while clients select databases, among them the files just stored.       *)
(***************************************************************************)
NextUpload ==
  \/ \E n \in {<<>>, <<A>>} \cup {<<n>> : n \in StoredNames} : SelectDatabase(n)
  \/ Tick
  \/ \E k \in 1..NUploads, f \in UploadInputs : Upload(k, f)
  \/ \E k \in 1..NUploads : UploadProbe(k)
  \/ \E k \in 1..NUploads : UploadUnlink(k)

SpecUpload == Init /\ [][NextUpload]_vars

(***************************************************************************)
(* The browse resolution: a /projects request, with a database selected or *)
(* not, against every answer of the provider.                               *)
(***************************************************************************)
InitBrowse ==
  /\ files = (Join(uploadsDir, <<A>>) :> Content(TRUE))
  /\ dbPath \in {Undefined, Join(uploadsDir, <<A>>)}
  /\ now = 0
  /\ uploads = [k \in 1..NUploads |-> NoUpload]
  /\ res = Response("none", 0, "")
  /\ db = NoData
  /\ browse = NoBrowse
  /\ calls = <<>>
  /\ detail = NoDetail

NextBrowse ==
  \/ \E q \in Queries : BrowseStart(q)
  \/ \E ok \in BOOLEAN : BrowseProjects(ok)
  \/ \E ok \in BOOLEAN : BrowseBranchesLatest(ok)
  \/ \E ok \in BOOLEAN : BrowseBranches(ok)
  \/ \E ok \in BOOLEAN : BrowseStates(ok)

SpecBrowse == InitBrowse /\ [][NextBrowse]_vars

(***************************************************************************)
(* The detail dispatch: a detail request of either route, for every column *)
(* token, while clients select databases.                                   *)
(***************************************************************************)
NextDetails ==
  \/ \E n \in {<<A>>, <<B>>} : SelectDatabase(n)
  \/ \E p \in ProjectStateIds : DetailsLlmRequests(p)
  \/ \E c \in Columns, p \in ProjectStateIds : Details(c, p)
  \/ \E ok \in BOOLEAN : DetailsSettle(ok)

SpecDetails == Init /\ [][NextDetails]_vars

(***************************************************************************)
(* The handle and the routes around it: clients list, select, rename and   *)
(* delete databases, upload one file at a time and ask for details.         *)
(***************************************************************************)
NextHandle ==
  \/ Root
  \/ \E n \in {<<>>, <<A>>, <<B>>} : SelectDatabase(n)
  \/ \E o \in {<<A>>, <<B>>}, n \in {<<A>>, <<B>>} : RenameDatabase(o, n)
  \/ \E n \in {<<A>>, <<B>>} : DeleteDatabase(n)
  \/ \E f \in UploadInputs : Upload(1, f)
  \/ UploadProbe(1)
  \/ UploadUnlink(1)
  \/ DetailsLlmRequests(1)
  \/ \E c \in {"epic", "Epic"} : Details(c, 1)
  \/ \E ok \in BOOLEAN : DetailsSettle(ok)

SpecHandle == Init /\ [][NextHandle]_vars

(***************************************************************************)
(* The requests that read the handle: a browse request with no parameters  *)
(* and a detail request of either route, while clients select databases.   *)
(***************************************************************************)
NextRequests ==
  \/ \E n \in {<<A>>, <<B>>} : SelectDatabase(n)
  \/ BrowseStart(NoQuery)
  \/ \E ok \in BOOLEAN : BrowseProjects(ok)
  \/ \E ok \in BOOLEAN : BrowseBranchesLatest(ok)
  \/ DetailsLlmRequests(1)
  \/ \E c \in {"epic", "Epic"} : Details(c, 1)
  \/ \E ok \in BOOLEAN : DetailsSettle(ok)

SpecRequests == Init /\ [][NextRequests]_vars

(***************************************************************************)
(* The session: a browse request running while clients list and select     *)
(* databases, so that the active handle changes while the request is        *)
(* suspended in a provider call.                                            *)
(***************************************************************************)
SessionQueries ==
  { NoQuery,
    Query(1, NoId, Filter(Absent, Absent, Absent, Absent, Absent)),
    Query(1, NoId, Filter("build", Absent, Absent, Absent, Absent)) }

NextSession ==
  \/ Root
  \/ \E n \in {<<A>>, <<B>>} : SelectDatabase(n)
  \/ \E q \in SessionQueries : BrowseStart(q)
  \/ \E ok \in BOOLEAN : BrowseProjects(ok)
  \/ \E ok \in BOOLEAN : BrowseBranchesLatest(ok)
  \/ \E ok \in BOOLEAN : BrowseBranches(ok)
  \/ \E ok \in BOOLEAN : BrowseStates(ok)

SpecSession == Init /\ [][NextSession]_vars


(***************************************************************************)
(* Properties of the file and session lifecycle (specifications Spec and   *)
(* SpecStore).                                                              *)
(***************************************************************************)

\* C1: a delete-database request whose name, joined with the uploads
\* directory, is the active handle is refused with a client error, removes
\* no file from the File Store and leaves the active handle unchanged.
C1_DeleteActiveRefused ==
  [][\A n \in ClientNames \ {<<>>} :
        (DeleteDatabase(n) /\ dbPath = Join(uploadsDir, n))
          => /\ res' = Response("/delete-database", 400, DeletionNotAllowed)
             /\ files' = files
             /\ dbPath' = dbPath]_vars

\* a deletion of the active database, whose file exists, has just been refused
C1_Witness ==
  /\ res = Response("/delete-database", 400, DeletionNotAllowed)
  /\ dbPath # Undefined
  /\ Exists(dbPath)

\* C2: in every reachable state, if the active handle is set then the file
\* it refers to exists in the File Store.
C2_ActiveFileExists == dbPath # Undefined => Exists(dbPath)

\* C3: once the structural-validation error of an upload has been sent (the
\* open probe failed), the stored artifact is no longer in the File Store.
C3_InvalidUploadGone ==
  \A k \in 1..NUploads : uploads[k].pc = "unlinking" => ~Exists(uploads[k].path)

\* C4: the active handle never refers to the stored file of an upload whose
\* open probe failed.
C4_InvalidNeverActive ==
  \A k \in 1..NUploads : uploads[k].pc = "unlinking" => dbPath # uploads[k].path

\* C5: a select-database request naming a file present in the File Store
\* sets the active handle to it; one naming an absent file returns a client
\* error and leaves the active handle unchanged.
C5_SelectChecksPresence ==
  [][\A n \in ClientNames \ {<<>>} :
        SelectDatabase(n) =>
          IF Exists(Join(uploadsDir, n))
          THEN dbPath' = Join(uploadsDir, n)
          ELSE res'.status = 400 /\ dbPath' = dbPath]_vars

\* C6: any two uploads in flight are stored under distinct names.
C6_DistinctStoredNames ==
  \A j, k \in 1..NUploads :
     (j # k /\ uploads[j].pc # "free" /\ uploads[k].pc # "free")
        => uploads[j].path # uploads[k].path

\* C18: the validation probe connection of an upload is closed on every
\* exit path: when the delete of the stored file has been issued on the
\* invalid-format path the connection is closed, and no request that is
\* over has left its connection open.
C18_ProbeClosed ==
  \A k \in 1..NUploads :
     /\ uploads[k].pc = "unlinking" => uploads[k].db = "closed"
     /\ uploads[k].pc = "free" => uploads[k].db # "open"

\* the file name a client's name refers to
Last(name) == name[Len(name)]

\* C16: every upload rejected by validation (unrecognised extension,
\* oversize, or failed open probe) ends with a client-error response, and a
\* rejection for an unrecognised extension stores no file and leaves the
\* File Store and the active handle unchanged.
C16_RejectedUploadClientError ==
  [][/\ \A k \in 1..NUploads, f \in UploadInputs :
          (Upload(k, f) /\ ~f.none /\ (~fileFilter(f) \/ f.size > fileSize))
          => /\ res'.route = "/upload"
             /\ res'.status \in 400..499
             /\ ~fileFilter(f) => (files' = files /\ dbPath' = dbPath)
     /\ \A k \in 1..NUploads :
          (UploadProbe(k) /\ uploads'[k].pc = "unlinking")
          => /\ res'.route = "/upload"
             /\ res'.status \in 400..499]_vars

C15_RenameDeleteRoundTrip ==
  [][/\ \A o \in ClientNames \ {<<>>}, n \in RenameTargets \ {<<>>} :
          (/\ RenameDatabase(o, n)
           /\ res'.status = 302
           /\ Last(o) \in databases(files)
           /\ Join(uploadsDir, o) # Join(uploadsDir, n))
          => /\ Last(n) \in databases(files')
             /\ Last(o) \notin databases(files')
     /\ \A n \in ClientNames \ {<<>>} :
          (DeleteDatabase(n) /\ res'.status = 302)
          => Last(n) \notin databases(files')]_vars

(***************************************************************************)
(* Properties of the browse resolution (specification SpecBrowse).         *)
(***************************************************************************)
Rendered == browse.pc = "done" /\ browse.status = 200

\* the rows of seq whose created_at is maximal in seq
Latest(seq) ==
  { seq[i] : i \in { i \in 1..Len(seq) :
                       \A j \in 1..Len(seq) : seq[j].created_at <= seq[i].created_at } }

AnyFilter(q) == Truthy(q.task) \/ Truthy(q.epic) \/ Truthy(q.iteration) \/ Truthy(q.agent)

\* the selected project has branches, so the handler took the latest of them
BranchResolved == browse.branches # <<>>

Called(fn) == \E i \in 1..Len(calls) : calls[i].fn = fn

\* C7: for a browse request with no projectId, when the latest project has
\* at least one branch, the rendered view has selectedBranchId equal to that
\* project's branch with maximum created_at and projectStates equal to the
\* full unfiltered state list of that branch.  (Stated for the requests that
\* supply no filter field, where no other reading of the claim applies.)
C7_LatestProjectStates ==
  (/\ Rendered
   /\ ~TruthyId(browse.query.projectId)
   /\ ~AnyFilter(browse.query)
   /\ db.projects # <<>>
   /\ db.branches # <<>>)
  => \E b \in Latest(db.branches) :
        /\ browse.selectedBranchId = b.id
        /\ browse.projectStates = getProjectStatesByBranchId(b.id)

\* C8: for a browse request with no projectId while the provider returns at
\* least one project, the resolved selectedProjectId is the id of a project
\* whose created_at is maximal among all returned projects.
C8_LatestProjectSelected ==
  (/\ browse.pc \in {"getBranchesLatest", "getBranches", "searchStates", "getStates", "done"}
   /\ browse.projects # <<>>
   /\ ~TruthyId(browse.query.projectId))
  => \E p \in Latest(db.projects) : browse.selectedProjectId = p.id

\* a view was rendered for a request with no projectId where the provider
\* returned the older project first
C8_Witness ==
  /\ Rendered
  /\ ~TruthyId(browse.query.projectId)
  /\ Len(db.projects) = 2
  /\ db.projects[1].created_at < db.projects[2].created_at
  /\ browse.selectedProjectId = db.projects[2].id

\* C9: for a browse request whose selected project (one the provider
\* returned) has no branches, the rendered projectStates list is empty,
\* whatever the other query parameters.
C9_NoBranchesNoStates ==
  (/\ Rendered
   /\ \E i \in 1..Len(db.projects) : db.projects[i].id = browse.selectedProjectId
   /\ db.branches = <<>>)
  => browse.projectStates = <<>>

\* C10: once a branch is resolved, the state list comes from the filtered
\* search if and only if one of task, epic, iteration, agent is present and
\* non-empty; otherwise it is the full unfiltered state list of the resolved
\* branch, which is the selected project's branch with maximum created_at.
C10_FilteredIffCriteria ==
  (Rendered /\ BranchResolved)
  => /\ Called("searchProjectStates") <=> AnyFilter(browse.query)
     /\ ~AnyFilter(browse.query)
          => browse.projectStates = getProjectStatesByBranchId(browse.selectedBranchId)
     /\ \E b \in Latest(db.branches) :
          browse.selectedBranchId = b.id

Range(seq) == { seq[i] : i \in 1..Len(seq) }

\* C11: for a browse request supplying at least one of task, epic,
\* iteration, agent, every search call is scoped to the resolved branch id,
\* the rendered state list is a subset of the unfiltered state list of the
\* resolved branch, and it is empty when no state of that branch matches all
\* the supplied criteria.
C11_SearchSubsetScoped ==
  (Rendered /\ AnyFilter(browse.query))
  => LET full == getProjectStatesByBranchId(browse.selectedBranchId) IN
     /\ \A i \in 1..Len(calls) :
           calls[i].fn = "searchProjectStates" => calls[i].arg = browse.selectedBranchId
     /\ Range(browse.projectStates) \subseteq Range(full)
     /\ (\A j \in 1..Len(full) : ~Matches(full[j], browse.query))
           => browse.projectStates = <<>>

\* a filtered search was rendered for a request whose own branchId is not the
\* resolved branch, and it kept some states of the resolved branch but not all
C11_Witness ==
  /\ Rendered
  /\ AnyFilter(browse.query)
  /\ Called("searchProjectStates")
  /\ TruthyId(browse.query.branchId)
  /\ browse.query.branchId # browse.selectedBranchId
  /\ browse.projectStates # <<>>
  /\ Len(browse.projectStates) < Len(getProjectStatesByBranchId(browse.selectedBranchId))

\* C12: browse resolution is all-or-nothing.  A step in which a provider
\* call (projects, branches, states or search) fails ends the request with
\* the one error response and no rendered view; a view is rendered only by a
\* step in which the awaited call succeeded; a request that has responded
\* responds no more.
C12_AllOrNothing ==
  [][/\ (\/ BrowseProjects(FALSE) \/ BrowseBranchesLatest(FALSE)
         \/ BrowseBranches(FALSE) \/ BrowseStates(FALSE))
        => /\ browse'.pc = "done"
           /\ browse'.status = 500
           /\ res' = Response("/projects", 500, "Error fetching data")
     /\ (browse.pc # "done" /\ browse'.pc = "done" /\ browse'.status = 200)
        => /\ (\/ BrowseProjects(TRUE) \/ BrowseBranchesLatest(TRUE)
               \/ BrowseBranches(TRUE) \/ BrowseStates(TRUE))
           /\ res' = Response("/projects", 200, "projects")
     /\ browse.pc = "done" => browse' = browse]_vars

\* the states call failed after the projects and the branches were fetched:
\* the request ended with the error response and nothing was rendered
C12_Witness ==
  /\ browse.pc = "done"
  /\ browse.status = 500
  /\ browse.projects # <<>>
  /\ browse.branches # <<>>
  /\ Len(calls) = 3
  /\ res = Response("/projects", 500, "Error fetching data")

(***************************************************************************)
(* Properties of the requests that read the handle (specifications         *)
(* SpecRequests, SpecDetails and SpecSession).                              *)
(***************************************************************************)

\* C13: a browse request or a detail request (generic or LLM-request alias)
\* that found no database active has failed with a client error and has
\* issued no call to the Data Query Provider.
C13_NoActiveNoAccess ==
  /\ (browse.pc # "idle" /\ browse.dbPath = Undefined)
        => (browse.pc = "done" /\ browse.status = 400 /\ calls = <<>>)
  /\ (detail.pc # "idle" /\ detail.dbPath = Undefined)
        => (detail.pc = "done" /\ detail.status = 400 /\ detail.calls = <<>>)

\* a browse request and a generic detail request for a column of the switch
\* both arrived while no database was active, and both were refused
C13_Witness ==
  /\ browse.pc = "done" /\ browse.dbPath = Undefined /\ browse.status = 400
  /\ detail.pc = "done" /\ detail.dbPath = Undefined /\ detail.status = 400
  /\ detail.route = ColumnRoute
  /\ detail.column = "epic"

\* the seven detail categories: the token, the provider function of the
\* category and the template of the category
Categories ==
  { <<"epic", "getEpicDetailsByProjectStateId", "details/epicDetails">>,
    <<"task", "getTaskDetailsByProjectStateId", "details/taskDetails">>,
    <<"step", "getStepDetailsByProjectStateId", "details/stepDetails">>,
    <<"files", "getFileDetailsByProjectStateId", "details/fileDetails">>,
    <<"userInputs", "getUserInputDetailsByProjectStateId", "details/userInputDetails">>,
    <<"llmRequests", "getLLMRequestDetailsByProjectStateId", "details/llmRequests">>,
    <<"iteration", "getIterationDetailsByProjectStateId", "details/iterationDetails">> }

\* C14: with an active database, a detail request whose category token is
\* one of the seven has issued exactly one provider call, the one of that
\* category for the requested state, and what it renders is that category's
\* template; a request with any other token has been answered bad request
\* with no provider call at all.  The LLM-request alias behaves as the
\* llmRequests category.
C14_DetailDispatch ==
  (detail.pc # "idle" /\ detail.dbPath # Undefined)
  => /\ detail.route = ColumnRoute
          => IF \E c \in Categories : c[1] = detail.column
             THEN \E c \in Categories :
                    /\ c[1] = detail.column
                    /\ Len(detail.calls) = 1
                    /\ detail.calls[1] = Call(c[2], detail.dbPath, detail.projectStateId)
                    /\ detail.status \in {0, 200, 500}
                    /\ detail.status = 200 <=> detail.view = c[3]
             ELSE /\ detail.pc = "done"
                  /\ detail.status = 400
                  /\ detail.view = ""
                  /\ detail.calls = <<>>
     /\ detail.route = LlmRequestsRoute
          => /\ Len(detail.calls) = 1
             /\ detail.calls[1] = Call("getLLMRequestDetailsByProjectStateId",
                                        detail.dbPath, detail.projectStateId)
             /\ detail.status = 200 <=> detail.view = "details/llmRequests"

\* with a database active, the step column of a state was rendered
C14_Witness ==
  /\ detail.pc = "done"
  /\ detail.dbPath # Undefined
  /\ detail.column = "step"
  /\ detail.status = 200
  /\ detail.view = "details/stepDetails"
  /\ Len(detail.calls) = 1

\* C19: the active handle is unset initially; a step changes it only if it
\* is a select-database request or the successful probe of an upload; once
\* set it is never unset; listing, rename, delete, browse and detail
\* requests, and every other step of an upload, leave it unchanged.
C19_HandleFrame ==
  /\ dbPath = Undefined
  /\ [][/\ dbPath' # dbPath
            => \/ \E n \in ClientNames \ {<<>>} : SelectDatabase(n)
               \/ \E k \in 1..NUploads : UploadProbe(k) /\ res'.status = 302
        /\ dbPath # Undefined => dbPath' # Undefined
        /\ (\/ Root
            \/ \E o \in ClientNames, n \in RenameTargets : RenameDatabase(o, n)
            \/ \E n \in ClientNames : DeleteDatabase(n)
            \/ \E q \in Queries : BrowseStart(q)
            \/ \E ok \in BOOLEAN : BrowseProjects(ok) \/ BrowseBranchesLatest(ok)
                                      \/ BrowseBranches(ok) \/ BrowseStates(ok)
                                      \/ DetailsSettle(ok)
            \/ \E p \in ProjectStateIds : DetailsLlmRequests(p)
            \/ \E c \in Columns, p \in ProjectStateIds : Details(c, p)
            \/ \E k \in 1..NUploads : UploadUnlink(k)
            \/ \E k \in 1..NUploads, f \in UploadInputs : Upload(k, f))
            => dbPath' = dbPath]_vars

\* a detail request read the handle an upload had set; since then the file
\* was renamed and a select-database request has replaced the handle
C19_Witness ==
  /\ detail.pc = "done"
  /\ detail.dbPath # Undefined
  /\ Last(detail.dbPath) \in StoredNames
  /\ dbPath = Join(uploadsDir, <<B>>)
  /\ Exists(dbPath)
  /\ ~Exists(Join(uploadsDir, <<A>>))

\* C20: within a browse request the handle is read once, before any provider
\* call: the handle the request holds never changes after the request has
\* started, and every provider call it issues (projects, branches, states or
\* search) is given that handle, whatever select-database requests do to the
\* active handle while the request is suspended.
C20_BrowseHandleOnce ==
  [][/\ browse.pc # "idle" => browse'.dbPath = browse.dbPath
     /\ \A i \in 1..Len(calls') : calls'[i].dbPath = browse'.dbPath
     /\ calls' # <<>> => browse'.dbPath # Undefined]_vars

\* the request is suspended in its third provider call, all three issued
\* with the handle it read, while the active handle is another database
C20_Witness ==
  /\ browse.pc \in {"searchStates", "getStates"}
  /\ Len(calls) = 3
  /\ \A i \in 1..3 : calls[i].dbPath = browse.dbPath
  /\ dbPath # Undefined
  /\ dbPath # browse.dbPath

====
